---- MODULE Spec2Model ----
(***************************************************************************)
(* Decimal(P, S) conversions of src/DataTypes/DataTypesDecimal.h.          *)
(*                                                                         *)
(* The native types behind Decimal32/64/128/256 are 32..256 bits wide,     *)
(* wider than the integers of the model checker, so every raw value is an  *)
(* exact integer kept as a sign and a sequence of decimal digits (most     *)
(* significant first, no leading zero, zero is the empty sequence).  The   *)
(* widths, limits and precisions are the real ones.                        *)
(***************************************************************************)
EXTENDS Integers, Sequences, FiniteSets

(***************************************************************************)
(* Exact integers.  A definition takes what it uses more than once as a    *)
(* parameter of a helper, so that each is computed once.                   *)
(***************************************************************************)
FirstNonZero(s) ==
    CHOOSE i \in 1..Len(s) : s[i] # 0 /\ \A j \in 1..(i - 1) : s[j] = 0

\* s without its leading zeros.
Norm(s) ==
    IF \A i \in 1..Len(s) : s[i] = 0 THEN << >>
    ELSE SubSeq(s, FirstNonZero(s), Len(s))

\* Digit of magnitude m at offset k from the least significant end.
DigitAt(m, k) == IF k < Len(m) THEN m[Len(m) - k] ELSE 0

FirstDiff(a, b) ==
    CHOOSE i \in 1..Len(a) : a[i] # b[i] /\ \A j \in 1..(i - 1) : a[j] = b[j]

CmpAt(a, b, i) == IF a[i] < b[i] THEN -1 ELSE 1

\* -1, 0 or 1 as a < b, a = b or a > b.
MagCmp(a, b) ==
    IF Len(a) # Len(b) THEN (IF Len(a) < Len(b) THEN -1 ELSE 1)
    ELSE IF a = b THEN 0
    ELSE CmpAt(a, b, FirstDiff(a, b))

(***************************************************************************)
(* The digit loops below run over the positions lo..hi by halving the      *)
(* range: the first half is computed, then the second half continues from  *)
(* its running state (carry, borrow, remainder).                           *)
(***************************************************************************)
PutDigit(t, acc) == [carry |-> t \div 10, acc |-> <<t % 10>> \o acc]

CarryOut(r) == IF r.carry = 0 THEN r.acc ELSE <<r.carry>> \o r.acc

RECURSIVE AddFold(_, _, _, _, _)
RECURSIVE AddRest(_, _, _, _, _)
AddFold(a, b, lo, hi, st) ==
    IF lo = hi THEN PutDigit(DigitAt(a, lo) + DigitAt(b, lo) + st.carry, st.acc)
    ELSE AddRest(a, b, (lo + hi) \div 2, hi, AddFold(a, b, lo, (lo + hi) \div 2, st))

AddRest(a, b, mid, hi, left) ==
    IF left.carry >= 0 THEN AddFold(a, b, mid + 1, hi, left) ELSE left

MaxLen(a, b) == IF Len(a) > Len(b) THEN Len(a) ELSE Len(b)

MagAdd(a, b) ==
    IF a = << >> THEN b
    ELSE IF b = << >> THEN a
    ELSE CarryOut(AddFold(a, b, 0, MaxLen(a, b) - 1, [carry |-> 0, acc |-> << >>]))

PutBorrow(t, acc) ==
    IF t < 0 THEN [carry |-> 1, acc |-> <<t + 10>> \o acc]
    ELSE [carry |-> 0, acc |-> <<t>> \o acc]

RECURSIVE SubFold(_, _, _, _, _)
RECURSIVE SubRest(_, _, _, _, _)
SubFold(a, b, lo, hi, st) ==
    IF lo = hi THEN PutBorrow(DigitAt(a, lo) - DigitAt(b, lo) - st.carry, st.acc)
    ELSE SubRest(a, b, (lo + hi) \div 2, hi, SubFold(a, b, lo, (lo + hi) \div 2, st))

SubRest(a, b, mid, hi, left) ==
    IF left.carry >= 0 THEN SubFold(a, b, mid + 1, hi, left) ELSE left

\* a - b for a >= b.
MagSub(a, b) ==
    IF b = << >> THEN a
    ELSE Norm(SubFold(a, b, 0, Len(a) - 1, [carry |-> 0, acc |-> << >>]).acc)

RECURSIVE MulFold(_, _, _, _, _)
RECURSIVE MulRest(_, _, _, _, _)
MulFold(a, d, lo, hi, st) ==
    IF lo = hi THEN PutDigit(DigitAt(a, lo) * d + st.carry, st.acc)
    ELSE MulRest(a, d, (lo + hi) \div 2, hi, MulFold(a, d, lo, (lo + hi) \div 2, st))

MulRest(a, d, mid, hi, left) ==
    IF left.carry >= 0 THEN MulFold(a, d, mid + 1, hi, left) ELSE left

\* a * d for a digit d, and for d = 10.
MagMulSmall(a, d) ==
    IF a = << >> \/ d = 0 THEN << >>
    ELSE IF d = 1 THEN a
    ELSE IF d = 10 THEN Append(a, 0)
    ELSE CarryOut(MulFold(a, d, 0, Len(a) - 1, [carry |-> 0, acc |-> << >>]))

\* Schoolbook product: the digits of b from the most significant one.
RECURSIVE ProdFold(_, _, _, _, _)
RECURSIVE ProdRest(_, _, _, _, _)
ProdFold(a, b, lo, hi, acc) ==
    IF lo = hi THEN MagAdd(MagMulSmall(acc, 10), MagMulSmall(a, b[lo]))
    ELSE ProdRest(a, b, (lo + hi) \div 2, hi, ProdFold(a, b, lo, (lo + hi) \div 2, acc))

ProdRest(a, b, mid, hi, left) ==
    IF Len(left) >= 0 THEN ProdFold(a, b, mid + 1, hi, left) ELSE left

MagMul(a, b) ==
    IF a = << >> \/ b = << >> THEN << >>
    ELSE ProdFold(a, b, 1, Len(b), << >>)

RECURSIVE NatDigits(_)
NatDigits(n) == IF n = 0 THEN << >> ELSE Append(NatDigits(n \div 10), n % 10)

\* The value of the first n digits of a magnitude, n <= 8.
RECURSIVE MagToNat(_, _)
MagToNat(m, n) == IF n = 0 THEN 0 ELSE MagToNat(m, n - 1) * 10 + m[n]

\* One step of division by a divisor of at most 8 digits, held as the number
\* bn: with c the remainder so far and the next digit brought down, the
\* quotient digit and the new remainder are computed directly.
ShortDivPut(q, c, bn) == [q |-> Append(q, c \div bn), r |-> c % bn]

RECURSIVE ShortDivFold(_, _, _, _, _)
RECURSIVE ShortDivRest(_, _, _, _, _)
ShortDivFold(a, bn, lo, hi, st) ==
    IF lo = hi THEN ShortDivPut(st.q, st.r * 10 + a[lo], bn)
    ELSE ShortDivRest(a, bn, (lo + hi) \div 2, hi,
                      ShortDivFold(a, bn, lo, (lo + hi) \div 2, st))

ShortDivRest(a, bn, mid, hi, left) ==
    IF left.r >= 0 THEN ShortDivFold(a, bn, mid + 1, hi, left) ELSE left

\* One step of long division: with r1 the remainder so far and the next digit
\* brought down, the quotient digit d is the number of the multiples
\* 1b..9b (mult) that fit r1.
LongDivPut(mult, q, r1, d) ==
    [q |-> Append(q, d), r |-> IF d = 0 THEN r1 ELSE MagSub(r1, mult[d])]

LongDivDigit(mult, q, r1) ==
    LongDivPut(mult, q, r1, Cardinality({x \in 1..9 : MagCmp(mult[x], r1) <= 0}))

RECURSIVE LongDivFold(_, _, _, _, _)
RECURSIVE LongDivRest(_, _, _, _, _)
LongDivFold(a, mult, lo, hi, st) ==
    IF lo = hi THEN LongDivDigit(mult, st.q, Norm(Append(st.r, a[lo])))
    ELSE LongDivRest(a, mult, (lo + hi) \div 2, hi,
                     LongDivFold(a, mult, lo, (lo + hi) \div 2, st))

LongDivRest(a, mult, mid, hi, left) ==
    IF Len(left.q) >= 0 THEN LongDivFold(a, mult, mid + 1, hi, left) ELSE left

ShortDivResult(r) == <<Norm(r.q), NatDigits(r.r)>>
LongDivResult(r) == <<Norm(r.q), r.r>>

\* Division with remainder, b # 0: <<quotient, remainder>>.
MagDivMod(a, b) ==
    IF b = <<1>> THEN <<a, << >> >>
    ELSE IF MagCmp(a, b) < 0 THEN << << >>, a >>
    ELSE IF Len(b) <= 8
    THEN ShortDivResult(ShortDivFold(a, MagToNat(b, Len(b)), 1, Len(a),
                                     [q |-> << >>, r |-> 0]))
    ELSE LongDivResult(LongDivFold(a, [x \in 1..9 |-> MagMulSmall(b, x)], 1, Len(a),
                                   [q |-> << >>, r |-> << >>]))

Big(neg, mag) == [neg |-> neg /\ mag # << >>, mag |-> mag]

\* A small integer of the model as an exact integer.
FromInt(n) == IF n < 0 THEN Big(TRUE, NatDigits(-n)) ELSE Big(FALSE, NatDigits(n))

BigZero == [neg |-> FALSE, mag |-> << >>]
BigNeg(x) == Big(~x.neg, x.mag)

BigCmp(x, y) ==
    IF x.neg # y.neg THEN (IF x.neg THEN -1 ELSE 1)
    ELSE IF x.neg THEN MagCmp(y.mag, x.mag) ELSE MagCmp(x.mag, y.mag)

BigLT(x, y) == BigCmp(x, y) < 0
BigLE(x, y) == BigCmp(x, y) <= 0

BigAdd(x, y) ==
    IF x.neg = y.neg THEN Big(x.neg, MagAdd(x.mag, y.mag))
    ELSE IF MagCmp(x.mag, y.mag) >= 0 THEN Big(x.neg, MagSub(x.mag, y.mag))
    ELSE Big(y.neg, MagSub(y.mag, x.mag))

BigSub(x, y) == BigAdd(x, BigNeg(y))
BigMul(x, y) == Big(x.neg # y.neg, MagMul(x.mag, y.mag))

\* The built-in integer division of C++: the quotient truncated toward zero.
BigQuot(x, y) == Big(x.neg # y.neg, MagDivMod(x.mag, y.mag)[1])

NonNegRemainder(neg, r, ymag) ==
    IF neg /\ r # << >> THEN Big(FALSE, MagSub(ymag, r)) ELSE Big(FALSE, r)

\* The non-negative remainder of x modulo a positive y.
BigMod(x, y) == NonNegRemainder(x.neg, MagDivMod(x.mag, y.mag)[2], y.mag)

(***************************************************************************)
(* Native types.  Decimal32/64/128/256 are named by the width in bits of   *)
(* their NativeType; sizeof comparisons are comparisons of widths.         *)
(***************************************************************************)
Widths == {32, 64, 128, 256}

\* 2^(w-1) in decimal digits: the magnitude of the least value of the signed
\* w-bit type.
HalfT ==
    [w \in {8, 16, 32, 64, 128, 256} |->
        CASE w = 8 ->
               << 1, 2, 8 >>
          [] w = 16 ->
               << 3, 2, 7, 6, 8 >>
          [] w = 32 ->
               << 2, 1, 4, 7, 4, 8, 3, 6, 4, 8 >>
          [] w = 64 ->
               << 9, 2, 2, 3, 3, 7, 2, 0, 3, 6, 8, 5, 4, 7, 7, 5, 8, 0, 8 >>
          [] w = 128 ->
               << 1, 7, 0, 1, 4, 1, 1, 8, 3, 4, 6, 0, 4, 6, 9, 2, 3, 1, 7, 3, 1, 6,
           8, 7, 3, 0, 3, 7, 1, 5, 8, 8, 4, 1, 0, 5, 7, 2, 8 >>
          [] w = 256 ->
               << 5, 7, 8, 9, 6, 0, 4, 4, 6, 1, 8, 6, 5, 8, 0, 9, 7, 7, 1, 1, 7, 8,
           5, 4, 9, 2, 5, 0, 4, 3, 4, 3, 9, 5, 3, 9, 2, 6, 6, 3, 4, 9, 9, 2,
           3, 3, 2, 8, 2, 0, 2, 8, 2, 0, 1, 9, 7, 2, 8, 7, 9, 2, 0, 0, 3, 9,
           5, 6, 5, 6, 4, 8, 1, 9, 9, 6, 8 >>]

\* 2^w
Pow2T == [w \in DOMAIN HalfT |-> MagMulSmall(HalfT[w], 2)]

NativeMaxT == [w \in DOMAIN HalfT |-> Big(FALSE, MagSub(HalfT[w], <<1>>))]
NativeMinT == [w \in DOMAIN HalfT |-> Big(TRUE, HalfT[w])]

\* std::numeric_limits<NativeType>::max() and ::min() of the signed w-bit type.
NativeMax(w) == NativeMaxT[w]
NativeMin(w) == NativeMinT[w]

InRange(x, w) == BigLE(NativeMin(w), x) /\ BigLE(x, NativeMax(w))

WrapInto(m, w) ==
    IF BigLE(m, NativeMax(w)) THEN m ELSE BigSub(m, Big(FALSE, Pow2T[w]))

\* static_cast to the signed w-bit type: the value itself when it fits,
\* otherwise the value modulo 2^w (two's complement).
StaticCast(x, w) ==
    IF InRange(x, w) THEN x ELSE WrapInto(BigMod(x, Big(FALSE, Pow2T[w])), w)

\* The marker of a value that was never produced.
NoValue == [none |-> TRUE]

MaxPrecisionInt32 == 9
MaxPrecisionInt64 == 18
MaxPrecisionInt128 == 38
MaxPrecisionInt256 == 76

maxPrecisionWrong(w) == MaxPrecisionInt32

\* DecimalUtils::maxPrecision<T>(): the table of the header.
maxPrecision(w) ==
    CASE w = 32  -> MaxPrecisionInt32
      [] w = 64  -> MaxPrecisionInt64
      [] w = 128 -> MaxPrecisionInt128
      [] w = 256 -> MaxPrecisionInt256

\* DecimalUtils::scaleMultiplier<NativeType>(k): 10^k, for k up to the
\* maximum precision of the type.
scaleMultiplier(w, k) == Big(FALSE, <<1>> \o [i \in 1..k |-> 0])

\* common::mulOverflow(a, b, res): TRUE when a * b does not fit the signed
\* w-bit type.
mulOverflow(w, a, b) == ~InRange(BigMul(a, b), w)

\* The res that mulOverflow(a, b, res) leaves: the product as the type holds it.
mulResult(w, a, b) == StaticCast(BigMul(a, b), w)

(***************************************************************************)
(* convertDecimals<FromDataType, ToDataType>(value, scale_from, scale_to)  *)
(***************************************************************************)
\* MaxFieldType: From when it is the larger of the two, otherwise To.
MaxWidth(from, to) == IF from > to THEN from ELSE to

\* The product taken without looking at the overflow flag.
ScaleUpUnchecked(wide, a, m) ==
    [overflow |-> FALSE, converted_value |-> mulResult(wide, a, m)]

\* The branch scale_to > scale_from, with a the value as MaxNativeType and m
\* the multiplier scaleMultiplier<MaxNativeType>(scale_to - scale_from): the
\* checked product, or the exception.
ScaleUp(wide, a, m) ==
    IF mulOverflow(wide, a, m)
    THEN [overflow |-> TRUE, converted_value |-> NoValue]
    ELSE [overflow |-> FALSE, converted_value |-> mulResult(wide, a, m)]

\* Division rounding toward minus infinity instead of toward zero.
ScaleDownFloor(value, m) ==
    LET q == BigQuot(value, m)
    IN  IF value.neg /\ BigMul(q, m) # value THEN BigSub(q, FromInt(1)) ELSE q

\* Division by ten times the multiplier.
ScaleDownOneMore(value, m) == BigQuot(value, Big(FALSE, Append(m.mag, 0)))

\* The else branch, with m the multiplier
\* scaleMultiplier<MaxNativeType>(scale_from - scale_to): value.value / m.
ScaleDown(value, m) == BigQuot(value, m)

NarrowOverflowUpperOnly(from, to, converted_value) ==
    from > to /\ BigLT(NativeMax(to), converted_value)

NarrowOverflowNever(from, to, converted_value) == FALSE

\* if constexpr (sizeof(From) > sizeof(To)): outside the range of To's type.
NarrowOverflow(from, to, converted_value) ==
    /\ from > to
    /\ \/ BigLT(converted_value, NativeMin(to))
       \/ BigLT(NativeMax(to), converted_value)

\* The range check and the return, with c what the scale branch left.
CheckAndReturn(from, to, c) ==
    IF c.overflow
    THEN [err |-> "DECIMAL_OVERFLOW", converted_value |-> NoValue,
          result |-> NoValue]
    ELSE IF NarrowOverflow(from, to, c.converted_value)
    THEN [err |-> "DECIMAL_OVERFLOW", converted_value |-> c.converted_value,
          result |-> NoValue]
    ELSE [err |-> "none", converted_value |-> c.converted_value,
          result |-> StaticCast(c.converted_value, to)]

convertDecimals(from, to, value, scale_from, scale_to) ==
    CheckAndReturn(from, to,
        IF scale_to > scale_from
        THEN ScaleUp(MaxWidth(from, to), StaticCast(value, MaxWidth(from, to)),
                     scaleMultiplier(MaxWidth(from, to), scale_to - scale_from))
        ELSE [overflow |-> FALSE,
              converted_value |->
                  ScaleDown(value, scaleMultiplier(MaxWidth(from, to),
                                                   scale_from - scale_to))])

(***************************************************************************)
(* convertToDecimal<FromDataType, ToDataType>(value, scale)                *)
(***************************************************************************)
\* A native integer type: signed or unsigned, bits wide.
IntTypes == [signed : BOOLEAN, bits : {8, 16, 32, 64, 128, 256}]

TypeMax(T) ==
    IF T.signed THEN NativeMax(T.bits)
    ELSE Big(FALSE, MagSub(Pow2T[T.bits], <<1>>))

TypeMin(T) == IF T.signed THEN NativeMin(T.bits) ELSE BigZero

\* is_big_int_v<T>: the integers wider than 64 bits.
is_big_int(T) == T.bits > 64

\* The decimal type the integer is handed to convertDecimals as:
\* Decimal256 for a big integer, Decimal128 for UInt64, Decimal64 otherwise.
IntermediateWidth(T) ==
    IF is_big_int(T) THEN 256
    ELSE IF T = [signed |-> FALSE, bits |-> 64] THEN 128
    ELSE 64

\* The integer branch: the value converted to the intermediate decimal's
\* native type (static_cast<Int256>, or the decimal's converting constructor),
\* then convertDecimals from scale 0.
convertToDecimalInt(T, to, value, scale) ==
    convertDecimals(IntermediateWidth(T), to,
                    StaticCast(value, IntermediateWidth(T)), 0, scale)

(***************************************************************************)
(* A Float64 is NaN, an infinity, or the exact quotient num / den of an    *)
(* integer and a power of two.  The finite inputs and scales used are      *)
(* those whose product value * 10^scale is itself a Float64, so that the   *)
(* floating-point product is the exact one.                                *)
(***************************************************************************)
FloatFinite(num, den) == [cls |-> "finite", num |-> num, den |-> den]
FloatNaN == [cls |-> "nan", num |-> BigZero, den |-> FromInt(1)]
FloatInf == [cls |-> "inf", num |-> BigZero, den |-> FromInt(1)]
FloatNegInf == [cls |-> "-inf", num |-> BigZero, den |-> FromInt(1)]

isfiniteInfOnly(value) == value.cls \notin {"inf", "-inf"}

\* std::isfinite(value)
isfinite(value) == value.cls = "finite"

\* value * m for an integer m > 0 that is a Float64.
FloatMul(value, m) ==
    IF value.cls = "finite" THEN FloatFinite(BigMul(value.num, m), value.den)
    ELSE value

\* static_cast<Float64>(std::numeric_limits<NativeType>::max()) as an
\* integer: 2^31 - 1 is a Float64; 2^63 - 1, 2^127 - 1 and 2^255 - 1 round
\* to the next power of two.
FloatOfMax(w) == IF w = 32 THEN NativeMax(w) ELSE BigAdd(NativeMax(w), FromInt(1))

\* static_cast<Float64>(std::numeric_limits<NativeType>::min()): exact.
FloatOfMin(w) == NativeMin(w)

\* out <= limit and out >= limit; every comparison with NaN is false.
FloatLE(out, limit) ==
    CASE out.cls = "nan"  -> FALSE
      [] out.cls = "inf"  -> FALSE
      [] out.cls = "-inf" -> TRUE
      [] OTHER -> BigLE(out.num, BigMul(limit, out.den))

FloatGE(out, limit) ==
    CASE out.cls = "nan"  -> FALSE
      [] out.cls = "inf"  -> TRUE
      [] out.cls = "-inf" -> FALSE
      [] OTHER -> BigLE(BigMul(limit, out.den), out.num)

\* What a build may give for static_cast<NativeType>(NaN), which is undefined.
CastOfNaN(w) == {NativeMin(w), BigZero}

\* static_cast<NativeType>(out): the fraction is dropped; ub is the outcome
\* when out is not finite.
FloatToNative(out, ub) ==
    IF out.cls = "finite" THEN BigQuot(out.num, out.den) ELSE ub

\* The range check and the cast of the floating branch, with out the product.
CheckAndCast(to, out, ub) ==
    IF FloatLE(out, FloatOfMin(to)) \/ FloatGE(out, FloatOfMax(to))
    THEN [err |-> "DECIMAL_OVERFLOW", out |-> out, result |-> NoValue]
    ELSE [err |-> "none", out |-> out, result |-> FloatToNative(out, ub)]

\* The floating branch.
convertToDecimalFloat(to, value, scale, ub) ==
    IF ~isfinite(value)
    THEN [err |-> "DECIMAL_OVERFLOW", out |-> NoValue, result |-> NoValue]
    ELSE CheckAndCast(to, FloatMul(value, scaleMultiplier(to, scale)), ub)

(***************************************************************************)
(* The data type Decimal(P, S).                                            *)
(***************************************************************************)
\* The constructor DataTypeDecimal<T>(precision, scale), inherited from
\* DataTypeDecimalBase<T>.
DataTypeDecimal(precision, scale, w) ==
    IF precision = 0 \/ precision > maxPrecision(w) \/ scale > precision
    THEN [err |-> "InvalidTypeError", type |-> NoValue]
    ELSE [err |-> "none",
          type |-> [width |-> w, precision |-> precision, scale |-> scale]]

createDecimalMaxPrecisionSwapped(w, scale) == DataTypeDecimal(scale, maxPrecision(w), w)

\* createDecimalMaxPrecision<T>(scale)
createDecimalMaxPrecision(w, scale) == DataTypeDecimal(maxPrecision(w), scale, w)

Larger(x, y) == IF x > y THEN x ELSE y

\* The type of an operation between two decimals: the maximum precision of
\* the bigger underlying type, the maximum scale of the operands.
decimalResultType(tx, ty) ==
    DataTypeDecimal(maxPrecision(Larger(tx.width, ty.width)),
                    Larger(tx.scale, ty.scale),
                    Larger(tx.width, ty.width)).type

(***************************************************************************)
(* The state: the operand in hand, the calls made on it so far (each with  *)
(* its arguments and its outcome) and the data types constructed.          *)
(***************************************************************************)
VARIABLES cur, calls, types

vars == <<cur, calls, types>>

\* The longest chain of conversions followed, each fed the result of the
\* one before.
MaxCalls == 2

\* The scales the operands and the calls are given.
Scales == {0, 1, 3}

\* Raw values of each decimal type: the values the properties name, the
\* limits of the type and values just outside the next narrower type.
RawValues(w) ==
    CASE w = 32  -> {FromInt(12345), FromInt(-12345), FromInt(999999999),
                     NativeMin(32)}
      [] w = 64  -> {FromInt(-12345), BigAdd(NativeMax(32), FromInt(1)),
                     NativeMax(64), NativeMin(64)}
      [] w = 128 -> {FromInt(-999999999), BigSub(NativeMin(64), FromInt(1)),
                     NativeMax(128)}
      [] w = 256 -> {BigZero, BigAdd(NativeMax(128), FromInt(1)),
                     NativeMin(256), NativeMax(256)}

Decimals ==
    {[kind |-> "decimal", width |-> w, scale |-> s, value |-> v] :
        w \in Widths, s \in Scales, v \in UNION {RawValues(x) : x \in Widths}}

Failed == calls # << >> /\ calls[Len(calls)].err # "none"

Init ==
    /\ cur \in {d \in Decimals : d.value \in RawValues(d.width)}
    /\ calls = << >>
    /\ types = << >>

\* The decimal in hand after a call that returned r.
Returned(r, to, scale) ==
    IF r.err = "none"
    THEN [kind |-> "decimal", width |-> to, scale |-> scale, value |-> r.result]
    ELSE cur

RescaleReturns(to, scale_to, r) ==
    /\ calls' = Append(calls,
          [fn |-> "convertDecimals", from |-> cur.width, to |-> to,
           value |-> cur.value, scale_from |-> cur.scale,
           scale_to |-> scale_to, err |-> r.err,
           converted_value |-> r.converted_value, result |-> r.result])
    /\ cur' = Returned(r, to, scale_to)

\* A caller rescales the decimal in hand to type Decimal<to> at scale_to;
\* the result, when there is one, is the decimal in hand afterwards.  An
\* exception ends the chain.
ConvertDecimals(to, scale_to) ==
    /\ cur.kind = "decimal"
    /\ ~Failed
    /\ Len(calls) < MaxCalls
    /\ RescaleReturns(to, scale_to,
           convertDecimals(cur.width, to, cur.value, cur.scale, scale_to))
    /\ UNCHANGED types

Next == \E to \in Widths, scale_to \in Scales : ConvertDecimals(to, scale_to)

Spec == Init /\ [][Next]_vars

(***************************************************************************)
(* Native values converted to decimals.                                    *)
(***************************************************************************)
IntValues(T) ==
    {TypeMin(T), TypeMax(T), FromInt(123)}
        \cup (IF T.signed THEN {} ELSE {BigAdd(NativeMax(T.bits), FromInt(1))})

FloatValues ==
    {FloatNaN, FloatInf, FloatNegInf,
     FloatFinite(FromInt(1), FromInt(2)),
     FloatFinite(FromInt(-49), FromInt(4)),
     FloatFinite(NativeMax(32), FromInt(1)),
     FloatFinite(BigAdd(NativeMax(64), FromInt(1)), FromInt(1)),
     FloatFinite(NativeMin(128), FromInt(1)),
     FloatFinite(BigAdd(NativeMax(256), FromInt(1)), FromInt(1))}

InitNative ==
    /\ cur \in {[kind |-> "int", type |-> T, value |-> v] :
                    T \in IntTypes, v \in UNION {IntValues(X) : X \in IntTypes}}
               \cup {[kind |-> "float", value |-> f] : f \in FloatValues}
    /\ cur.kind = "int" => cur.value \in IntValues(cur.type)
    /\ calls = << >>
    /\ types = << >>

FromIntReturns(to, scale, r) ==
    /\ calls' = Append(calls,
          [fn |-> "convertToDecimal", source |-> "int", type |-> cur.type,
           to |-> to, value |-> cur.value, scale |-> scale, err |-> r.err,
           result |-> r.result])
    /\ cur' = Returned(r, to, scale)

ConvertToDecimalInt(to, scale) ==
    /\ cur.kind = "int"
    /\ ~Failed
    /\ FromIntReturns(to, scale,
           convertToDecimalInt(cur.type, to, cur.value, scale))
    /\ UNCHANGED types

FromFloatReturns(to, scale, r) ==
    /\ calls' = Append(calls,
          [fn |-> "convertToDecimal", source |-> "float", to |-> to,
           value |-> cur.value, scale |-> scale, err |-> r.err,
           out |-> r.out, result |-> r.result])
    /\ cur' = Returned(r, to, scale)

ConvertToDecimalFloat(to, scale) ==
    /\ cur.kind = "float"
    /\ ~Failed
    /\ \E ub \in CastOfNaN(to) :
           FromFloatReturns(to, scale,
               convertToDecimalFloat(to, cur.value, scale, ub))
    /\ UNCHANGED types

NextNative ==
    \E to \in Widths, scale \in Scales :
        \/ ConvertToDecimalInt(to, scale)
        \/ ConvertToDecimalFloat(to, scale)

SpecNative == InitNative /\ [][NextNative]_vars

(***************************************************************************)
(* Data types constructed, and the type of an operation between two.      *)
(***************************************************************************)
Precisions == {0, 1, 9, 10, 18, 38, 76, 77}
TypeScales == {0, 2, 4, 10, 77}

InitTypes ==
    /\ cur = [kind |-> "none"]
    /\ calls = << >>
    /\ types = << >>

\* What a construction leaves: the call with its arguments and its outcome r,
\* and the type when there is one.
Constructed(fn, precision, scale, w, r) ==
    /\ calls' = Append(calls,
          [fn |-> fn, precision |-> precision, scale |-> scale, width |-> w,
           err |-> r.err, type |-> r.type])
    /\ types' = IF r.err = "none" THEN Append(types, r.type) ELSE types

Promoted(t) ==
    /\ calls' = Append(calls,
          [fn |-> "decimalResultType", a |-> types[1], b |-> types[2],
           err |-> "none", type |-> t])
    /\ types' = Append(types, t)

\* The two operands of an operation are constructed one after the other; an
\* exception ends the run.
Construct(precision, scale, w) ==
    /\ ~Failed
    /\ Len(types) < 2
    /\ Constructed("DataTypeDecimal", precision, scale, w,
                   DataTypeDecimal(precision, scale, w))
    /\ UNCHANGED cur

CreateDecimalMaxPrecision(w, scale) ==
    /\ ~Failed
    /\ Len(types) < 2
    /\ Constructed("createDecimalMaxPrecision", maxPrecision(w), scale, w,
                   createDecimalMaxPrecision(w, scale))
    /\ UNCHANGED cur

DecimalResultType ==
    /\ ~Failed
    /\ Len(types) = 2
    /\ Promoted(decimalResultType(types[1], types[2]))
    /\ UNCHANGED cur

NextTypes ==
    \/ \E precision \in Precisions, scale \in TypeScales, w \in Widths :
           Construct(precision, scale, w)
    \/ \E scale \in TypeScales, w \in Widths : CreateDecimalMaxPrecision(w, scale)
    \/ DecimalResultType

SpecTypes == InitTypes /\ [][NextTypes]_vars

(***************************************************************************)
(* Reference arithmetic of the properties: a number times a power of ten   *)
(* is its decimal digits followed by zeros, with no multiplication or      *)
(* division of the model involved.                                         *)
(***************************************************************************)
\* x * 10^d
TimesTenTo(x, d) ==
    IF x.mag = << >> THEN x ELSE Big(x.neg, x.mag \o [i \in 1..d |-> 0])

BigAbs(x) == Big(FALSE, x.mag)

\* The precision buckets of the four widths.
Bucket(w) == CASE w = 32 -> 9 [] w = 64 -> 18 [] w = 128 -> 38 [] w = 256 -> 76

CallsOf(fn) == {i \in 1..Len(calls) : calls[i].fn = fn}

IsScaleUp(c) == c.fn = "convertDecimals" /\ c.scale_to > c.scale_from
IsScaleDown(c) == c.fn = "convertDecimals" /\ c.scale_to <= c.scale_from

(***************************************************************************)
(* Properties of convertDecimals                                           *)
(***************************************************************************)
ScaleUpExactOrOverflow(c) ==
    LET p == TimesTenTo(c.value, c.scale_to - c.scale_from)
    IN  IF InRange(p, MaxWidth(c.from, c.to)) /\ InRange(p, c.to)
        THEN c.err = "none" /\ c.result = p
        ELSE c.err = "DECIMAL_OVERFLOW" /\ c.result = NoValue

\* C1: every scale-up call (scale_to > scale_from) returns exactly
\* value * 10^(scale_to - scale_from) when that product fits the wider of the
\* two types and the destination type, and otherwise throws DECIMAL_OVERFLOW
\* without a result; a wrapped product is never returned.
C1_ScaleUpExactOrOverflow ==
    \A i \in CallsOf("convertDecimals") :
        IsScaleUp(calls[i]) => ScaleUpExactOrOverflow(calls[i])

\* A Decimal32 holding 999999999 was rescaled from scale 0 to scale 1 as a
\* Decimal32 and the call threw.
C1_Witness ==
    \E i \in CallsOf("convertDecimals") :
        /\ calls[i].from = 32 /\ calls[i].to = 32
        /\ calls[i].value = FromInt(999999999)
        /\ calls[i].scale_from = 0 /\ calls[i].scale_to = 1
        /\ calls[i].err = "DECIMAL_OVERFLOW"
        /\ calls[i].result = NoValue

TruncatedTowardZero(c) ==
    LET d == c.scale_from - c.scale_to
        q == c.converted_value
    IN  /\ q # NoValue
        /\ BigLE(TimesTenTo(BigAbs(q), d), BigAbs(c.value))
        /\ BigLT(BigAbs(c.value), TimesTenTo(BigAdd(BigAbs(q), FromInt(1)), d))
        /\ q # BigZero => q.neg = c.value.neg
        /\ c.err = "none" => c.result = q

\* C2: every scale-down call (scale_to <= scale_from) computes the value
\* divided by 10^(scale_from - scale_to) truncated toward zero: the magnitude
\* of the quotient is the largest whose multiple does not exceed the magnitude
\* of the value, and the quotient has the sign of the value or is zero.
C2_ScaleDownTruncates ==
    \A i \in CallsOf("convertDecimals") :
        IsScaleDown(calls[i]) => TruncatedTowardZero(calls[i])

\* -12345 at scale 3 was rescaled to scale 1 and gave -123.
C2_Witness ==
    \E i \in CallsOf("convertDecimals") :
        /\ calls[i].value = FromInt(-12345)
        /\ calls[i].scale_from = 3 /\ calls[i].scale_to = 1
        /\ calls[i].converted_value = FromInt(-123)
        /\ calls[i].result = FromInt(-123)

\* The rescaled value of a call as a number: the product of a scale-up, the
\* quotient of a scale-down.
Intermediate(c) ==
    IF IsScaleUp(c) THEN TimesTenTo(c.value, c.scale_to - c.scale_from)
    ELSE c.converted_value

NarrowingChecked(c) ==
    /\ c.err = "DECIMAL_OVERFLOW" <=> ~InRange(Intermediate(c), c.to)
    /\ c.err # "DECIMAL_OVERFLOW" => c.err = "none" /\ c.result = Intermediate(c)

\* C3: when the destination type is narrower than the source type, the call
\* throws DECIMAL_OVERFLOW if and only if the rescaled value lies outside the
\* range of the destination's native type, and otherwise returns exactly the
\* rescaled value: never a clamped or wrapped one.
C3_NarrowingChecked ==
    \A i \in CallsOf("convertDecimals") :
        calls[i].from > calls[i].to => NarrowingChecked(calls[i])

\* One narrowing call returned the rescaled value and another rejected a
\* rescaled value below the least value of the destination.
C3_Witness ==
    /\ \E i \in CallsOf("convertDecimals") :
           /\ calls[i].from > calls[i].to
           /\ calls[i].err = "none"
           /\ calls[i].result = calls[i].converted_value
    /\ \E i \in CallsOf("convertDecimals") :
           /\ calls[i].from > calls[i].to
           /\ calls[i].err = "DECIMAL_OVERFLOW"
           /\ calls[i].converted_value # NoValue
           /\ BigLT(calls[i].converted_value, NativeMin(calls[i].to))

IsSameScale(c) == c.fn = "convertDecimals" /\ c.scale_from = c.scale_to

\* C8: a call with scale_from = scale_to returns the value unchanged when the
\* value lies in the range of the destination's native type, and throws
\* DECIMAL_OVERFLOW when it does not (a narrower destination).
C8_SameScaleIdentityWithinRange ==
    \A i \in CallsOf("convertDecimals") :
        IsSameScale(calls[i]) =>
            IF InRange(calls[i].value, calls[i].to)
            THEN calls[i].err = "none" /\ calls[i].result = calls[i].value
            ELSE calls[i].err = "DECIMAL_OVERFLOW" /\ calls[i].result = NoValue

\* A same-scale call to a narrower type threw, and a same-scale call
\* returned its value.
C8_Witness ==
    /\ \E i \in CallsOf("convertDecimals") :
           /\ IsSameScale(calls[i])
           /\ calls[i].from > calls[i].to
           /\ calls[i].err = "DECIMAL_OVERFLOW"
    /\ \E i \in CallsOf("convertDecimals") :
           /\ IsSameScale(calls[i])
           /\ calls[i].err = "none"
           /\ calls[i].result = calls[i].value

\* C8 as stated: every call with scale_from = scale_to, whatever the two
\* types, returns the value unchanged and does not throw.
C8_SameScaleNeverFails ==
    \A i \in CallsOf("convertDecimals") :
        IsSameScale(calls[i]) =>
            calls[i].err = "none" /\ calls[i].result = calls[i].value

\* Call i + 1 takes the result of call i back to the type and the scale call
\* i started from.
IsRoundTrip(i) ==
    /\ i + 1 <= Len(calls)
    /\ calls[i].fn = "convertDecimals" /\ calls[i + 1].fn = "convertDecimals"
    /\ calls[i].scale_from <= calls[i].scale_to
    /\ calls[i].err = "none"
    /\ calls[i + 1].to = calls[i].from
    /\ calls[i + 1].scale_to = calls[i].scale_from

\* C9: when a value is rescaled from scale s to a scale t >= s without
\* overflow, rescaling the result from t back to s and to the original type
\* succeeds and returns the original value.
C9_ScaleRoundTrip ==
    \A i \in 1..Len(calls) :
        IsRoundTrip(i) =>
            /\ calls[i + 1].err = "none"
            /\ calls[i + 1].result = calls[i].value

\* A value other than zero went up in scale and came back.
C9_Witness ==
    \E i \in 1..Len(calls) :
        /\ IsRoundTrip(i)
        /\ calls[i].scale_from < calls[i].scale_to
        /\ calls[i].value # BigZero
        /\ calls[i].result # calls[i].value
        /\ calls[i + 1].result = calls[i].value

\* Calls i and i + 1 scale a value down twice within one type.
IsTwoStepDown(i) ==
    /\ i + 1 <= Len(calls)
    /\ IsScaleDown(calls[i]) /\ IsScaleDown(calls[i + 1])
    /\ calls[i].from = calls[i].to
    /\ calls[i + 1].from = calls[i].from /\ calls[i + 1].to = calls[i].from

\* C10: within one type, scaling a value down from a to b and the result
\* from b to c gives what scaling the value down from a to c directly gives,
\* and none of the three calls throws.
C10_ScaleDownComposes ==
    \A i \in 1..Len(calls) :
        IsTwoStepDown(i) =>
            /\ calls[i].err = "none"
            /\ calls[i + 1].err = "none"
            /\ calls[i + 1].value = calls[i].result
            /\ convertDecimals(calls[i].from, calls[i].from, calls[i].value,
                               calls[i].scale_from, calls[i + 1].scale_to)
                 = [err |-> "none", converted_value |-> calls[i + 1].result,
                    result |-> calls[i + 1].result]

\* A value lost digits in each of two steps down.
C10_Witness ==
    \E i \in 1..Len(calls) :
        /\ IsTwoStepDown(i)
        /\ calls[i].scale_from > calls[i].scale_to
        /\ calls[i + 1].scale_from > calls[i + 1].scale_to
        /\ TimesTenTo(calls[i].result, calls[i].scale_from - calls[i].scale_to)
             # calls[i].value
        /\ calls[i + 1].result # BigZero

(***************************************************************************)
(* Properties of convertToDecimal                                          *)
(***************************************************************************)
IsFromInt(c) == c.fn = "convertToDecimal" /\ c.source = "int"
IsFromFloat(c) == c.fn = "convertToDecimal" /\ c.source = "float"

\* C4 as stated: a conversion from a native integer either returns exactly
\* value * 10^scale or throws DECIMAL_OVERFLOW; it never returns another
\* value.
C4_IntegerExactOrOverflow ==
    \A i \in CallsOf("convertToDecimal") :
        IsFromInt(calls[i]) =>
            \/ calls[i].err = "DECIMAL_OVERFLOW"
            \/ /\ calls[i].err = "none"
               /\ calls[i].result = TimesTenTo(calls[i].value, calls[i].scale)

\* The UInt256 value 2^255 converted to Decimal256 at scale 0 returned
\* -2^255.
C4_Witness ==
    \E i \in CallsOf("convertToDecimal") :
        /\ IsFromInt(calls[i])
        /\ calls[i].type = [signed |-> FALSE, bits |-> 256]
        /\ calls[i].value = BigAdd(NativeMax(256), FromInt(1))
        /\ calls[i].to = 256 /\ calls[i].scale = 0
        /\ calls[i].err = "none"
        /\ calls[i].result = NativeMin(256)

\* C5: converting NaN, +Infinity or -Infinity throws DECIMAL_OVERFLOW before
\* the multiplication by the scale multiplier: there is no product, no
\* result, and the operand in hand is still the floating-point value.
C5_NonFiniteRejected ==
    \A i \in CallsOf("convertToDecimal") :
        IsFromFloat(calls[i]) /\ calls[i].value.cls # "finite" =>
            /\ calls[i].err = "DECIMAL_OVERFLOW"
            /\ calls[i].out = NoValue
            /\ calls[i].result = NoValue
            /\ i = Len(calls) => cur = [kind |-> "float", value |-> calls[i].value]

\* NaN was converted, and the call threw.
C5_Witness ==
    \E i \in CallsOf("convertToDecimal") :
        /\ IsFromFloat(calls[i])
        /\ calls[i].value = FloatNaN
        /\ calls[i].err = "DECIMAL_OVERFLOW"

(***************************************************************************)
(* Properties of the data types                                            *)
(***************************************************************************)
\* C6: the type of an operation between two decimal types has the maximum
\* precision of the wider of the two underlying types (9, 18, 38 or 76) and
\* the larger of the two scales, and is not narrower than either operand.
C6_Promotion ==
    \A i \in CallsOf("decimalResultType") :
        /\ calls[i].type.precision
             = Bucket(Larger(calls[i].a.width, calls[i].b.width))
        /\ calls[i].type.scale = Larger(calls[i].a.scale, calls[i].b.scale)
        /\ calls[i].type.width >= calls[i].a.width
        /\ calls[i].type.width >= calls[i].b.width

\* Decimal32(9, 2) with Decimal64(18, 4) gave precision 18 and scale 4.
C6_Witness ==
    \E i \in CallsOf("decimalResultType") :
        /\ calls[i].a = [width |-> 32, precision |-> 9, scale |-> 2]
        /\ calls[i].b = [width |-> 64, precision |-> 18, scale |-> 4]
        /\ calls[i].type.precision = 18
        /\ calls[i].type.scale = 4

IsConstruction(c) == c.fn \in {"DataTypeDecimal", "createDecimalMaxPrecision"}

\* What a failed construction leaves: InvalidTypeError and no type.
NoDescriptor(i) ==
    /\ calls[i].err = "InvalidTypeError"
    /\ calls[i].type = NoValue
    /\ i = Len(calls)
    /\ \A j \in 1..Len(types) : \E k \in 1..(i - 1) : calls[k].type = types[j]

\* C7: a type is constructed exactly when 0 <= scale <= precision and
\* 0 < precision <= maxPrecision of the width (9, 18, 38, 76); any other
\* triple fails with InvalidTypeError and no type is produced.
C7_ConstructionValid ==
    \A i \in 1..Len(calls) :
        IsConstruction(calls[i]) =>
            IF /\ calls[i].scale <= calls[i].precision
               /\ 0 < calls[i].precision
               /\ calls[i].precision <= Bucket(calls[i].width)
            THEN /\ calls[i].err = "none"
                 /\ calls[i].type = [width |-> calls[i].width,
                                     precision |-> calls[i].precision,
                                     scale |-> calls[i].scale]
            ELSE NoDescriptor(i)

\* A type of scale 0 was constructed, and then a creation at the maximum
\* precision failed for a scale above it.
C7_Witness ==
    /\ \E i \in CallsOf("DataTypeDecimal") :
           calls[i].scale = 0 /\ calls[i].err = "none"
    /\ \E i \in CallsOf("createDecimalMaxPrecision") :
           calls[i].err = "InvalidTypeError"

\* C7 as stated: construction succeeds exactly when
\* 0 < scale <= precision <= maxPrecision of the width.
C7_ConstructionNeedsPositiveScale ==
    \A i \in 1..Len(calls) :
        IsConstruction(calls[i]) =>
            (calls[i].err = "none"
                <=> /\ 0 < calls[i].scale
                    /\ calls[i].scale <= calls[i].precision
                    /\ calls[i].precision <= Bucket(calls[i].width))

====
